---- MODULE Spec2Model ----
(***************************************************************************)
(* A model of selene-lib's orchestration core (selene-lib/src/lib.rs):     *)
(* Checker::new builds one instance of every registered lint and loads     *)
(* every configured plugin, failing fast; Checker::test_on runs the lints, *)
(* the plugins and the lint filter over one syntax tree.                   *)
(*                                                                         *)
(* The modules lib.rs only calls into (rules, plugins, lint_filtering) are *)
(* modelled by what the design document says of them.                      *)
(***************************************************************************)
EXTENDS Integers, Sequences, FiniteSets, TLC

(***************************************************************************)
(* Bounds of the model.                                                    *)
(***************************************************************************)
\* Threads of the caller that invoke test_on on the one constructed engine.
NumThreads == 2
\* Longest plugin list of a config bundle.
MaxPlugins == 2

Threads == 1..NumThreads

(***************************************************************************)
(* The registry: use_rules! { ... } without the "roblox" feature.          *)
(***************************************************************************)
ALL_RULES ==
    << "almost_swapped", "bad_string_escape", "compare_nan",
       "constant_table_comparison", "deprecated", "divide_by_zero",
       "duplicate_keys", "empty_if", "global_usage", "if_same_then_else",
       "ifs_same_cond", "incorrect_standard_library_use",
       "invalid_lint_filter", "mismatched_arg_count", "multiple_statements",
       "must_use", "parenthese_conditions", "shadowing",
       "suspicious_reverse_loop", "type_check_inside_call",
       "unbalanced_assignments", "undefined_variable", "unscoped_variables",
       "unused_variable" >>

RuleNames == { ALL_RULES[i] : i \in 1..Len(ALL_RULES) }

rule_exists(name) == \E i \in 1..Len(ALL_RULES) : ALL_RULES[i] = name

(***************************************************************************)
(* Severity and RuleVariation.                                             *)
(***************************************************************************)
Severities == { "Allow", "Warning", "Error" }
RuleVariations == { "Allow", "Deny", "Warn" }

to_severity(variation) ==
    CASE variation = "Allow" -> "Allow"
      [] variation = "Deny"  -> "Error"
      [] variation = "Warn"  -> "Warning"

(***************************************************************************)
(* Results: Ok(value) and Err(error) as records of one shape.              *)
(***************************************************************************)
NoError == [ type |-> "none", name |-> "", problem |-> "" ]

(***************************************************************************)
(* The per-check settings of a config bundle.  An entry is the opaque      *)
(* value V of the config file; the model distinguishes the entries by what *)
(* the check's Config type and constructor make of them.                   *)
(***************************************************************************)
\* <Rule>::Config::default()
DefaultRuleConfig == "default"

\* <Rule>::Config::deserialize(entry): Ok(config) or Err(problem).
ConfigDeserialize(entry) ==
    IF entry = "wrong_type"
    THEN [ ok |-> FALSE, value |-> "", problem |-> "invalid type" ]
    ELSE [ ok |-> TRUE, value |-> entry, problem |-> "" ]

\* <Rule>::new(config): Ok(rule) or Err(problem).
RuleNew(name, ruleConfig) ==
    IF ruleConfig = "out_of_range"
    THEN [ ok |-> FALSE, value |-> "", problem |-> "rejected setting" ]
    ELSE [ ok |-> TRUE, value |-> ruleConfig, problem |-> "" ]

\* HashMap::remove: the map without the key.
MapRemove(map, key) == [ k \in (DOMAIN map) \ { key } |-> map[k] ]

(***************************************************************************)
(* Plugins.  The scripts the plugin sources of a config can point at; a    *)
(* source that is not in the table does not exist.                         *)
(***************************************************************************)
Scripts ==
    [ s \in { "count_calls.lua", "broken.lua" } |->
        CASE s = "count_calls.lua" ->
               [ name |-> "count_calls", severity |-> "Warning", behaviour |-> "lint" ]
          [] s = "broken.lua"      ->
               [ name |-> "broken", severity |-> "Allow", behaviour |-> "raise" ] ]

PluginSources == (DOMAIN Scripts) \cup { "missing.lua" }

\* plugins::LuaPlugin::new(plugin_config): Ok(plugin) or Err(problem).
LuaPluginNew(plugin_config) ==
    IF plugin_config.source \in DOMAIN Scripts
    THEN [ ok |-> TRUE, value |-> Scripts[plugin_config.source], problem |-> "" ]
    ELSE [ ok |-> FALSE,
           value |-> [ name |-> "", severity |-> "Error", behaviour |-> "" ],
           problem |-> "no such file" ]

\* LuaPlugin::full_name: the plugin's name in the namespace of plugins.
full_name(plugin) == "plugin_" \o plugin.name

(***************************************************************************)
(* CheckerConfig<V>.                                                       *)
(***************************************************************************)
\* CheckerConfig::default()
DefaultCheckerConfig ==
    [ config |-> << >>, plugins |-> << >>, rules |-> << >>, std |-> "" ]

\* Keys and entries of the per-check settings the model draws configs from.
SettingKeys == { "bad_string_escape", "global_usage", "not_a_rule" }

SettingEntries(key) ==
    CASE key = "bad_string_escape" -> { "wrong_type", "out_of_range" }
      [] key = "global_usage"      -> { "custom", "wrong_type", "out_of_range" }
      [] key = "not_a_rule"        -> { "wrong_type" }

Settings ==
    UNION { { m \in [ keys -> { "custom", "wrong_type", "out_of_range" } ] :
                \A k \in keys : m[k] \in SettingEntries(k) } :
            keys \in SUBSET SettingKeys }

\* Plugin lists: up to MaxPlugins distinct sources.
PluginLists ==
    UNION { { l \in [ 1..n -> [ source : PluginSources ] ] :
                \A i, j \in 1..n : i /= j => l[i] /= l[j] } :
            n \in 0..MaxPlugins }

\* Names and maps of the severity overrides the model draws configs from.
\* ("count_calls" names neither a lint nor a plugin: the plugin of that name
\* is "plugin_count_calls".)
OverrideKeys ==
    { "global_usage", "invalid_lint_filter", "plugin_count_calls",
      "plugin_broken", "count_calls" }

OverrideVariations(key) ==
    CASE key = "global_usage"        -> { "Allow", "Deny" }
      [] key = "invalid_lint_filter" -> { "Warn" }
      [] key = "plugin_count_calls"  -> { "Deny" }
      [] key = "plugin_broken"       -> { "Allow" }
      [] key = "count_calls"         -> { "Deny" }

\* Override maps: no override, or one name overridden.
Overrides ==
    { << >> } \cup
    UNION { { [ k \in { key } |-> v ] : v \in OverrideVariations(key) } :
            key \in OverrideKeys }

\* The plugin list a bundle with an override of `key` comes with: the plugin
\* the override is about, if it is about one.
OverridePlugins(key) ==
    CASE key \in { "plugin_count_calls", "count_calls" } ->
           << [ source |-> "count_calls.lua" ] >>
      [] key = "plugin_broken" -> << [ source |-> "broken.lua" ] >>
      [] OTHER -> << >>

\* The per-check settings a bundle with an override of `key` comes with: an
\* entry under no lint's name next to the override under no unit's name.
OverrideSettings(key) ==
    IF key = "count_calls" THEN [ k \in { "not_a_rule" } |-> "wrong_type" ] ELSE << >>

\* The config bundles Checker::new is given: bundles with per-check settings
\* (and at most a plugin that does not load), bundles with plugins, and
\* bundles with a severity override.
Configs ==
    { c \in [ config : Settings, plugins : PluginLists,
              rules : Overrides, std : { "", "lua51" } ] :
        \/ /\ c.rules = << >>
           /\ c.std = ""
           /\ c.plugins \in { << >>, << [ source |-> "missing.lua" ] >> }
        \/ /\ c.rules = << >>
           /\ c.config = << >>
           /\ c.std = "lua51"
        \/ /\ c.rules /= << >>
           /\ c.std = "lua51"
           /\ \E key \in DOMAIN c.rules :
                 /\ c.plugins = OverridePlugins(key)
                 /\ c.config = OverrideSettings(key) }

(***************************************************************************)
(* State.                                                                  *)
(***************************************************************************)
VARIABLES
    given,      \* the config bundle as the caller passed it to Checker::new
    config,     \* `mut config` of Checker::new
    newPc,      \* where Checker::new is: "rules", "context", "plugins", "done"
    ruleIdx,    \* index in ALL_RULES of the next rule_field!
    rules,      \* the rule fields evaluated so far: << [name, config] >>
    context,    \* the Context field, once evaluated
    plugins,    \* `plugins` of create_plugins_from_config
    result,     \* what Checker::new returned: kind "pending", "Ok" or "Err"
    checker,    \* << >>, or << the Checker value >> once Ok was returned
    newLog,     \* the calls Checker::new has made, in order
    call,       \* per thread: the frame of its test_on call, if it is in one
    lua_asts,   \* the live bridged trees: id -> [ast, locked_by (0: unlocked)]
    returned    \* the << tree, list >> pairs a caller that keeps them got from test_on

newVars == << given, config, newPc, ruleIdx, rules, context, plugins, result,
              checker, newLog >>

vars == << given, config, newPc, ruleIdx, rules, context, plugins, result,
           checker, newLog, call, lua_asts, returned >>

\* A thread that is not in test_on.
IdleCall ==
    [ pc |-> "idle", ast |-> "", ast_context |-> "", diagnostics |-> << >>,
      lua_ast |-> 0, plugin |-> 0, log |-> << >> ]

NoContext == [ standard_library |-> "", standard_library_is_set |-> FALSE ]

\* The StandardLibrary the caller resolved for the config's `std`.
StandardLibraryFor(std) == IF std = "" THEN "lua51" ELSE std

Init ==
    /\ given \in Configs
    /\ config = given
    /\ newPc = "rules"
    /\ ruleIdx = 1
    /\ rules = << >>
    /\ context = NoContext
    /\ plugins = << >>
    /\ result = [ kind |-> "pending", error |-> NoError ]
    /\ checker = << >>
    /\ newLog = << >>
    /\ call = [ t \in Threads |-> IdleCall ]
    /\ lua_asts = << >>
    /\ returned = { }

(***************************************************************************)
(* Checker::new.                                                           *)
(***************************************************************************)
Event(op, name) == [ op |-> op, name |-> name ]

\* rule_field! with the deserialization error swallowed: the default config
\* is used for an entry that does not deserialize.
rule_field_DefaultOnError(cfg, rule_name) ==
    LET removed == [ cfg EXCEPT !.config = MapRemove(@, rule_name) ]
        rule    == RuleNew(rule_name, DefaultRuleConfig)
    IN  [ ok |-> TRUE, config |-> removed, rule |-> rule.value,
          log |-> << Event("remove", rule_name), Event("new", rule_name) >>,
          error |-> NoError ]

\* rule_field! reading the config entry with a lookup that leaves it in the
\* map.
rule_field_KeepsEntry(cfg, rule_name) ==
    LET present == rule_name \in DOMAIN cfg.config
        entry   == IF present
                   THEN ConfigDeserialize(cfg.config[rule_name])
                   ELSE [ ok |-> TRUE, value |-> DefaultRuleConfig, problem |-> "" ]
        rule    == RuleNew(rule_name, entry.value)
        log     == IF present THEN << Event("deserialize", rule_name) >> ELSE << >>
    IN  IF ~entry.ok
        THEN [ ok |-> FALSE, config |-> cfg, rule |-> "", log |-> log,
               error |-> [ type |-> "ConfigDeserializeError",
                           name |-> rule_name, problem |-> entry.problem ] ]
        ELSE IF ~rule.ok
        THEN [ ok |-> FALSE, config |-> cfg, rule |-> "",
               log |-> log \o << Event("new", rule_name) >>,
               error |-> [ type |-> "RuleNewError",
                           name |-> rule_name, problem |-> rule.problem ] ]
        ELSE [ ok |-> TRUE, config |-> cfg, rule |-> rule.value,
               log |-> log \o << Event("new", rule_name) >>, error |-> NoError ]

\* rule_field!($name, $path): the config entry is removed and deserialized
\* (or the default taken), and the rule constructed from it.
rule_field(cfg, rule_name) ==
    LET present == rule_name \in DOMAIN cfg.config
        removed == [ cfg EXCEPT !.config = MapRemove(@, rule_name) ]
        entry   == IF present
                   THEN ConfigDeserialize(cfg.config[rule_name])
                   ELSE [ ok |-> TRUE, value |-> DefaultRuleConfig, problem |-> "" ]
        rule    == RuleNew(rule_name, entry.value)
        log     == << Event("remove", rule_name) >>
                   \o (IF present THEN << Event("deserialize", rule_name) >> ELSE << >>)
    IN  IF ~entry.ok
        THEN [ ok |-> FALSE, config |-> removed, rule |-> "", log |-> log,
               error |-> [ type |-> "ConfigDeserializeError",
                           name |-> rule_name, problem |-> entry.problem ] ]
        ELSE IF ~rule.ok
        THEN [ ok |-> FALSE, config |-> removed, rule |-> "",
               log |-> log \o << Event("new", rule_name) >>,
               error |-> [ type |-> "RuleNewError",
                           name |-> rule_name, problem |-> rule.problem ] ]
        ELSE [ ok |-> TRUE, config |-> removed, rule |-> rule.value,
               log |-> log \o << Event("new", rule_name) >>, error |-> NoError ]

\* An early return of Checker::new through `?`: the error is returned and
\* everything built so far is dropped.
ReturnErr(error) ==
    /\ result' = [ kind |-> "Err", error |-> error ]
    /\ newPc' = "done"
    /\ config' = DefaultCheckerConfig
    /\ rules' = << >>
    /\ context' = NoContext
    /\ plugins' = << >>
    /\ ruleIdx' = ruleIdx
    /\ checker' = << >>

\* The rule fields evaluated from the end of the registry to its start.
RuleField_Reversed ==
    /\ newPc = "rules"
    /\ LET rule_name == ALL_RULES[Len(ALL_RULES) + 1 - ruleIdx]
           field == rule_field(config, rule_name)
       IN  /\ newLog' = newLog \o field.log
           /\ IF field.ok
              THEN /\ config' = field.config
                   /\ rules' = Append(rules, [ name |-> rule_name, config |-> field.rule ])
                   /\ ruleIdx' = ruleIdx + 1
                   /\ newPc' = IF ruleIdx = Len(ALL_RULES) THEN "context" ELSE "rules"
                   /\ UNCHANGED << context, plugins, result, checker >>
              ELSE ReturnErr(field.error)
    /\ UNCHANGED << given, call, lua_asts, returned >>

\* One rule field of the struct literal, in the order of use_rules!.
RuleField ==
    /\ newPc = "rules"
    /\ LET rule_name == ALL_RULES[ruleIdx]
           field == rule_field(config, rule_name)
       IN  /\ newLog' = newLog \o field.log
           /\ IF field.ok
              THEN /\ config' = field.config
                   /\ rules' = Append(rules, [ name |-> rule_name, config |-> field.rule ])
                   /\ ruleIdx' = ruleIdx + 1
                   /\ newPc' = IF ruleIdx = Len(ALL_RULES) THEN "context" ELSE "rules"
                   /\ UNCHANGED << context, plugins, result, checker >>
              ELSE ReturnErr(field.error)
    /\ UNCHANGED << given, call, lua_asts, returned >>

\* context: Context { standard_library, standard_library_is_set }
MakeContext ==
    /\ newPc = "context"
    /\ context' = [ standard_library |-> StandardLibraryFor(given.std),
                    standard_library_is_set |-> config.std /= "" ]
    /\ newPc' = "plugins"
    /\ UNCHANGED << given, config, ruleIdx, rules, plugins, result, checker, newLog,
                    call, lua_asts, returned >>

\* The loop body with the load error ignored: whatever LuaPlugin::new gave
\* is pushed.
load_plugin_PushInvalid(loaded, plugin_config) ==
    [ ok |-> TRUE, plugins |-> Append(loaded, LuaPluginNew(plugin_config).value),
      error |-> NoError ]

\* One iteration of the loop of create_plugins_from_config.
load_plugin(loaded, plugin_config) ==
    LET plugin == LuaPluginNew(plugin_config)
    IN  IF plugin.ok
        THEN [ ok |-> TRUE, plugins |-> Append(loaded, plugin.value), error |-> NoError ]
        ELSE [ ok |-> FALSE, plugins |-> loaded,
               error |-> [ type |-> "InvalidPlugin", name |-> "",
                           problem |-> plugin.problem ] ]

LoadPlugin ==
    /\ newPc = "plugins"
    /\ Len(plugins) < Len(config.plugins)
    /\ LET plugin_config == config.plugins[Len(plugins) + 1]
           loaded == load_plugin(plugins, plugin_config)
       IN  /\ newLog' = Append(newLog, Event("load", plugin_config.source))
           /\ IF loaded.ok
              THEN /\ plugins' = loaded.plugins
                   /\ UNCHANGED << config, newPc, ruleIdx, rules, context, result, checker >>
              ELSE ReturnErr(loaded.error)
    /\ UNCHANGED << given, call, lua_asts, returned >>

\* Checker::new made strict about its config: an entry of the settings map
\* that no check consumed, or an override under a name that is neither a
\* check's nor a loaded plugin's, is an error.
ReturnOk_RejectsUnknown ==
    /\ newPc = "plugins"
    /\ Len(plugins) = Len(config.plugins)
    /\ LET known == RuleNames \cup { full_name(plugins[i]) : i \in 1..Len(plugins) }
           strict_ok == /\ config.config = << >>
                        /\ (DOMAIN config.rules) \subseteq known
       IN  /\ checker' = IF strict_ok
                         THEN << [ config |-> config, context |-> context,
                                   plugins |-> plugins, rules |-> rules ] >>
                         ELSE << >>
           /\ result' = IF strict_ok
                        THEN [ kind |-> "Ok", error |-> NoError ]
                        ELSE [ kind |-> "Err",
                               error |-> [ type |-> "ConfigDeserializeError",
                                           name |-> "", problem |-> "unknown key" ] ]
    /\ newPc' = "done"
    /\ UNCHANGED << given, config, ruleIdx, rules, context, plugins, newLog,
                    call, lua_asts, returned >>

\* Ok(Self { ..., context, plugins, config })
ReturnOk ==
    /\ newPc = "plugins"
    /\ Len(plugins) = Len(config.plugins)
    /\ checker' = << [ config |-> config, context |-> context,
                       plugins |-> plugins, rules |-> rules ] >>
    /\ result' = [ kind |-> "Ok", error |-> NoError ]
    /\ newPc' = "done"
    /\ UNCHANGED << given, config, ruleIdx, rules, context, plugins, newLog,
                    call, lua_asts, returned >>

(***************************************************************************)
(* Syntax trees.  A tree is known to the model by what the checks, the     *)
(* plugin scripts and the filter find in it: per lint the labels it        *)
(* reports, the lints whose pass faults on it, the call sites a linting    *)
(* plugin reports, and its lint filter comments.                           *)
(***************************************************************************)
TreeNames == { "globals.lua", "typo.lua", "crash.lua" }

Trees ==
    [ n \in TreeNames |->
        CASE n = "globals.lua" ->
               [ name |-> n,
                 lints |-> [ global_usage |-> << <<10, 16>>, <<40, 46>> >>,
                             undefined_variable |-> << <<25, 28>> >>,
                             unused_variable |-> << <<5, 9>> >> ],
                 faults |-> { },
                 calls |-> << <<30, 33>>, <<12, 15>> >>,
                 filters |-> << [ target |-> "unused_variable", well_formed |-> FALSE,
                                  at |-> <<1, 3>>, from |-> 3, to |-> 9 ],
                                [ target |-> "all", well_formed |-> TRUE,
                                  at |-> <<11, 11>>, from |-> 11, to |-> 26 ],
                                [ target |-> "plugin_count_calls", well_formed |-> TRUE,
                                  at |-> <<28, 29>>, from |-> 29, to |-> 34 ],
                                [ target |-> "global_usage", well_formed |-> TRUE,
                                  at |-> <<35, 38>>, from |-> 38, to |-> 50 ] >> ]
          [] n = "typo.lua" ->
               [ name |-> n,
                 lints |-> [ global_usage |-> << <<7, 9>> >> ],
                 faults |-> { },
                 calls |-> << <<3, 5>> >>,
                 filters |-> << [ target |-> "no_such_lint", well_formed |-> TRUE,
                                  at |-> <<1, 2>>, from |-> 2, to |-> 20 ] >> ]
          [] n = "crash.lua" ->
               [ name |-> n,
                 lints |-> [ almost_swapped |-> << <<2, 4>> >>,
                             unused_variable |-> << <<8, 9>> >> ],
                 faults |-> { "divide_by_zero" },
                 calls |-> << >>,
                 filters |-> << >> ] ]

\* AstContext::from_ast(ast): the facts derived from one tree.
AstContextFromAst(ast) == "facts of " \o ast.name

\* rules::Diagnostic::new(code, message, primary_label)
Diagnostic(code, message, label) ==
    [ code |-> code, message |-> message, primary_label |-> label ]

\* R::SEVERITY, the compiled-in default severity of a lint.
RuleSeverity(name) ==
    IF name \in { "bad_string_escape", "duplicate_keys",
                  "incorrect_standard_library_use", "invalid_lint_filter",
                  "mismatched_arg_count", "undefined_variable" }
    THEN "Error"
    ELSE "Warning"

\* <R as Rule>::pass(ast, context, ast_context): the diagnostics of one lint,
\* or a fault (panic) inside the lint.
RulePass(name, ast, ctx, ast_context) ==
    LET found == IF name \in DOMAIN ast.lints THEN ast.lints[name] ELSE << >>
    IN  [ ok |-> name \notin ast.faults,
          diagnostics |->
            [ i \in 1..Len(found) |-> Diagnostic(name, "lint", found[i]) ] ]

\* LuaPlugin::pass(lua_ast, context, ast_context): Ok(diagnostics), or the
\* Err of a script that failed at run time.
PluginPass(plugin, ast, ctx, ast_context) ==
    IF plugin.behaviour = "raise"
    THEN [ ok |-> FALSE, diagnostics |-> << >>, error |-> "attempt to call a nil value" ]
    ELSE [ ok |-> TRUE,
           diagnostics |->
             [ i \in 1..Len(ast.calls) |->
                 Diagnostic(full_name(plugin), "call", ast.calls[i]) ],
           error |-> "" ]

(***************************************************************************)
(* lint_filtering::filter_diagnostics(ast, diagnostics, severity).         *)
(***************************************************************************)
FilterWildcard == "all"

\* A directive is honoured when its comment parses and its target is the
\* wildcard or a name rule_exists knows.
FilterIsValid(filter) ==
    /\ filter.well_formed
    /\ filter.target = FilterWildcard \/ rule_exists(filter.target)

FilterMatches(filter, checker_diagnostic) ==
    /\ FilterIsValid(filter)
    /\ filter.target \in { FilterWildcard, checker_diagnostic.diagnostic.code }
    /\ filter.from <= checker_diagnostic.diagnostic.primary_label[1]
    /\ checker_diagnostic.diagnostic.primary_label[1] <= filter.to

filter_diagnostics(ast, diagnostics, invalid_lint_filter_severity) ==
    LET Kept(d) == \A i \in 1..Len(ast.filters) : ~FilterMatches(ast.filters[i], d)
        Invalid(f) == ~FilterIsValid(f)
        invalid == SelectSeq(ast.filters, Invalid)
    IN  SelectSeq(diagnostics, Kept)
        \o [ i \in 1..Len(invalid) |->
               [ diagnostic |-> Diagnostic("invalid_lint_filter",
                                           IF invalid[i].well_formed
                                           THEN "no lint named " \o invalid[i].target
                                           ELSE "malformed lint filter",
                                           invalid[i].at),
                 severity |-> invalid_lint_filter_severity ] ]

(***************************************************************************)
(* Checker::test_on and Checker::run_plugins.                              *)
(***************************************************************************)
Engine == checker[1]

\* get_lint_severity without the lookup of the override.
get_lint_severity_DefaultOnly(engine, name) == RuleSeverity(name)

\* Checker::get_lint_severity(&self, _lint, name)
get_lint_severity(engine, name) ==
    IF name \in DOMAIN engine.config.rules
    THEN to_severity(engine.config.rules[name])
    ELSE RuleSeverity(name)

\* check_rule! leaving out the pass of a lint the config allows.
check_rule_SkipsAllowed(engine, ast, ast_context, diagnostics, name) ==
    LET rule_pass == RulePass(name, ast, engine.context, ast_context)
    IN  [ ok |-> rule_pass.ok,
          diagnostics |->
            IF get_lint_severity(engine, name) = "Allow"
            THEN diagnostics
            ELSE diagnostics
                 \o [ i \in 1..Len(rule_pass.diagnostics) |->
                        [ diagnostic |-> rule_pass.diagnostics[i],
                          severity |-> get_lint_severity(engine, name) ] ] ]

\* check_rule! putting the lint's diagnostics in front of the accumulated
\* ones.
check_rule_Prepends(engine, ast, ast_context, diagnostics, name) ==
    LET rule_pass == RulePass(name, ast, engine.context, ast_context)
    IN  [ ok |-> rule_pass.ok,
          diagnostics |->
            [ i \in 1..Len(rule_pass.diagnostics) |->
                [ diagnostic |-> rule_pass.diagnostics[i],
                  severity |-> get_lint_severity(engine, name) ] ]
            \o diagnostics ]

\* check_rule! catching the fault of a pass and reporting it as a diagnostic
\* of the lint, the way run_plugins reports the failure of a plugin.
check_rule_CatchesFault(engine, ast, ast_context, diagnostics, name) ==
    LET rule_pass == RulePass(name, ast, engine.context, ast_context)
    IN  [ ok |-> TRUE,
          diagnostics |->
            IF rule_pass.ok
            THEN diagnostics
                 \o [ i \in 1..Len(rule_pass.diagnostics) |->
                        [ diagnostic |-> rule_pass.diagnostics[i],
                          severity |-> get_lint_severity(engine, name) ] ]
            ELSE Append(diagnostics,
                        [ diagnostic |-> Diagnostic(name, "error running lint", <<0, 0>>),
                          severity |-> "Error" ]) ]

\* check_rule!($name): the lint's pass, each diagnostic tagged with the
\* severity of the lint and appended to `diagnostics`.
check_rule(engine, ast, ast_context, diagnostics, name) ==
    LET rule_pass == RulePass(name, ast, engine.context, ast_context)
    IN  [ ok |-> rule_pass.ok,
          diagnostics |->
            diagnostics
            \o [ i \in 1..Len(rule_pass.diagnostics) |->
                   [ diagnostic |-> rule_pass.diagnostics[i],
                     severity |-> get_lint_severity(engine, name) ] ] ]

\* $( check_rule!($rule_name); )+ from the i-th lint of the registry on;
\* a fault in a lint's pass unwinds out of test_on.
RECURSIVE check_rules(_, _, _, _, _, _)
check_rules(engine, ast, ast_context, diagnostics, log, i) ==
    IF i > Len(ALL_RULES)
    THEN [ ok |-> TRUE, diagnostics |-> diagnostics, log |-> log ]
    ELSE LET checked == check_rule(engine, ast, ast_context, diagnostics, ALL_RULES[i])
             logged == Append(log, Event("pass", ALL_RULES[i]))
         IN  IF checked.ok
             THEN check_rules(engine, ast, ast_context, checked.diagnostics, logged, i + 1)
             ELSE [ ok |-> FALSE, diagnostics |-> << >>, log |-> logged ]

\* run_plugins without its early return.
builds_lua_ast_Always(engine) == TRUE

\* `if self.plugins.is_empty() { return; }`: whether run_plugins goes on to
\* build the bridged tree.
builds_lua_ast(engine) == engine.plugins /= << >>

BridgeIds == 1..NumThreads

\* One bridged tree kept for all calls instead of a fresh one per call.
new_lua_ast_Shared(live, t) == 1

\* The bridged tree of another call that is in run_plugins taken over instead
\* of a fresh one.
new_lua_ast_OfAnotherCall(live, t) ==
    IF live = { } THEN t ELSE CHOOSE id \in live : TRUE

\* Arc::new(Mutex::new(full_moon_lua_types::Ast::from(ast))): a fresh
\* allocation, at an address no live bridged tree has (the allocating
\* thread's own slot of the heap when that is free).
new_lua_ast(live, t) ==
    CHOOSE id \in BridgeIds : id \notin live /\ (t \notin live => id = t)

\* The override looked up under the plugin's bare name.
plugin_severity_ByBareName(engine, plugin) ==
    IF plugin.name \in DOMAIN engine.config.rules
    THEN to_severity(engine.config.rules[plugin.name])
    ELSE plugin.severity

\* The severity of a plugin's diagnostics.
plugin_severity(engine, plugin) ==
    IF full_name(plugin) \in DOMAIN engine.config.rules
    THEN to_severity(engine.config.rules[full_name(plugin)])
    ELSE plugin.severity

\* The match with an Err arm that reports nothing.
match_plugin_pass_ErrIgnored(engine, plugin, plugin_pass, diagnostics) ==
    IF plugin_pass.ok
    THEN diagnostics
         \o [ i \in 1..Len(plugin_pass.diagnostics) |->
                [ diagnostic |-> plugin_pass.diagnostics[i],
                  severity |-> plugin_severity(engine, plugin) ] ]
    ELSE diagnostics

\* The match with an Err arm that replaces what was accumulated.
match_plugin_pass_ErrReplaces(engine, plugin, plugin_pass, diagnostics) ==
    IF plugin_pass.ok
    THEN diagnostics
         \o [ i \in 1..Len(plugin_pass.diagnostics) |->
                [ diagnostic |-> plugin_pass.diagnostics[i],
                  severity |-> plugin_severity(engine, plugin) ] ]
    ELSE << [ diagnostic |-> Diagnostic(full_name(plugin),
                                        "error running plugin: " \o plugin_pass.error,
                                        <<0, 0>>),
              severity |-> "Error" ] >>

\* The match with an Err arm that resolves the severity of the failure
\* diagnostic the way the Ok arm does.
match_plugin_pass_ErrResolved(engine, plugin, plugin_pass, diagnostics) ==
    IF plugin_pass.ok
    THEN diagnostics
         \o [ i \in 1..Len(plugin_pass.diagnostics) |->
                [ diagnostic |-> plugin_pass.diagnostics[i],
                  severity |-> plugin_severity(engine, plugin) ] ]
    ELSE Append(diagnostics,
                [ diagnostic |-> Diagnostic(full_name(plugin),
                                            "error running plugin: " \o plugin_pass.error,
                                            <<0, 0>>),
                  severity |-> plugin_severity(engine, plugin) ])

\* `match plugin_pass { Ok(..) => .., Err(..) => .. }`
match_plugin_pass(engine, plugin, plugin_pass, diagnostics) ==
    IF plugin_pass.ok
    THEN diagnostics
         \o [ i \in 1..Len(plugin_pass.diagnostics) |->
                [ diagnostic |-> plugin_pass.diagnostics[i],
                  severity |-> plugin_severity(engine, plugin) ] ]
    ELSE Append(diagnostics,
                [ diagnostic |-> Diagnostic(full_name(plugin),
                                            "error running plugin: " \o plugin_pass.error,
                                            <<0, 0>>),
                  severity |-> "Error" ])

\* run_plugins of a call that runs by itself: the plugins from the i-th on,
\* each handed the call's own bridged tree.
RECURSIVE run_plugins(_, _, _, _, _)
run_plugins(engine, ast, ast_context, diagnostics, i) ==
    IF ~builds_lua_ast(engine) \/ i > Len(engine.plugins)
    THEN diagnostics
    ELSE LET plugin == engine.plugins[i]
             plugin_pass == PluginPass(plugin, ast, engine.context, ast_context)
         IN  run_plugins(engine, ast, ast_context,
                         match_plugin_pass(engine, plugin, plugin_pass, diagnostics),
                         i + 1)

\* test_on of a call that runs by itself, from entry to return: Ok with the
\* list it returns, or not ok when a lint faults.
test_on(engine, ast) ==
    LET ast_context == AstContextFromAst(ast)
        checked == check_rules(engine, ast, ast_context, << >>, << >>, 1)
    IN  IF ~checked.ok
        THEN [ ok |-> FALSE, diagnostics |-> << >> ]
        ELSE [ ok |-> TRUE,
               diagnostics |->
                 filter_diagnostics(
                     ast,
                     run_plugins(engine, ast, ast_context, checked.diagnostics, 1),
                     get_lint_severity(engine, "invalid_lint_filter")) ]

\* test_on starting from a list left over from an earlier run on the tree
\* instead of an empty one.
TestOn_StaleAccumulator(t, n) ==
    /\ checker /= << >>
    /\ call[t].pc = "idle"
    /\ LET earlier == { p \in returned : p[1] = n }
       IN  call' = [ call EXCEPT ![t] =
                       [ IdleCall EXCEPT
                           !.pc = "checks", !.ast = n,
                           !.ast_context = AstContextFromAst(Trees[n]),
                           !.diagnostics = IF earlier = { }
                                           THEN << >>
                                           ELSE (CHOOSE p \in earlier : TRUE)[2] ] ]
    /\ UNCHANGED << newVars, lua_asts, returned >>

\* The caller invokes test_on(ast) on the constructed engine.
TestOn(t, n) ==
    /\ checker /= << >>
    /\ call[t].pc = "idle"
    /\ call' = [ call EXCEPT ![t] =
                   [ IdleCall EXCEPT !.pc = "checks", !.ast = n,
                                     !.ast_context = AstContextFromAst(Trees[n]) ] ]
    /\ UNCHANGED << newVars, lua_asts, returned >>

\* The lints with the filter run on their diagnostics at once, before the
\* plugins.
CheckRules_FilterFirst(t) ==
    /\ call[t].pc = "checks"
    /\ LET c == call[t]
           checked == check_rules(Engine, Trees[c.ast], c.ast_context,
                                  c.diagnostics, c.log, 1)
       IN  call' = [ call EXCEPT ![t] =
                       [ c EXCEPT !.pc = IF checked.ok THEN "run_plugins" ELSE "panicked",
                                  !.diagnostics =
                                      filter_diagnostics(
                                          Trees[c.ast], checked.diagnostics,
                                          get_lint_severity(Engine, "invalid_lint_filter")),
                                  !.log = Append(checked.log, Event("filter", c.ast)) ] ]
    /\ UNCHANGED << newVars, lua_asts, returned >>

\* The built-in lints, in registry order.
CheckRules(t) ==
    /\ call[t].pc = "checks"
    /\ LET c == call[t]
           checked == check_rules(Engine, Trees[c.ast], c.ast_context,
                                  c.diagnostics, c.log, 1)
       IN  call' = [ call EXCEPT ![t] =
                       [ c EXCEPT !.pc = IF checked.ok THEN "run_plugins" ELSE "panicked",
                                  !.diagnostics = checked.diagnostics,
                                  !.log = checked.log ] ]
    /\ UNCHANGED << newVars, lua_asts, returned >>

\* The fault of a lint leaves test_on without a return value.
Unwind(t) ==
    /\ call[t].pc = "panicked"
    /\ call' = [ call EXCEPT ![t] = IdleCall ]
    /\ UNCHANGED << newVars, lua_asts, returned >>

\* run_plugins up to its loop.
RunPlugins(t) ==
    /\ call[t].pc = "run_plugins"
    /\ LET c == call[t]
           id == new_lua_ast(DOMAIN lua_asts, t)
       IN  IF ~builds_lua_ast(Engine)
           THEN /\ call' = [ call EXCEPT ![t] = [ c EXCEPT !.pc = "filter" ] ]
                /\ UNCHANGED lua_asts
           ELSE IF Engine.plugins = << >>
           THEN \* a loop of no iterations: the bridged tree is dropped unused
                /\ call' = [ call EXCEPT ![t] =
                               [ c EXCEPT !.pc = "filter",
                                          !.log = Append(@, Event("lua_ast", ToString(id))) ] ]
                /\ UNCHANGED lua_asts
           ELSE /\ call' = [ call EXCEPT ![t] =
                               [ c EXCEPT !.pc = "plugin_lock", !.lua_ast = id,
                                          !.plugin = 1,
                                          !.log = Append(@, Event("lua_ast", ToString(id))) ] ]
                /\ lua_asts' = [ i \in (DOMAIN lua_asts) \cup { id } |->
                                   IF i = id
                                   THEN [ ast |-> c.ast, locked_by |-> 0 ]
                                   ELSE lua_asts[i] ]
    /\ UNCHANGED << newVars, returned >>

\* plugin.pass(..) takes the lock of the bridged tree it was handed.
PluginLock(t) ==
    /\ call[t].pc = "plugin_lock"
    /\ lua_asts[call[t].lua_ast].locked_by = 0
    /\ lua_asts' = [ lua_asts EXCEPT ![call[t].lua_ast].locked_by = t ]
    /\ call' = [ call EXCEPT ![t].pc = "plugin_pass",
                             ![t].log = Append(@, Event("lock", ToString(call[t].lua_ast))) ]
    /\ UNCHANGED << newVars, returned >>

\* The script runs, the lock is released, and run_plugins matches on the
\* result; after the last plugin run_plugins returns and the bridged tree
\* is dropped.
PluginPassed(t) ==
    /\ call[t].pc = "plugin_pass"
    /\ LET c == call[t]
           plugin == Engine.plugins[c.plugin]
           lua_ast == Trees[lua_asts[c.lua_ast].ast]
           plugin_pass == PluginPass(plugin, lua_ast, Engine.context, c.ast_context)
           last == c.plugin = Len(Engine.plugins)
       IN  /\ call' = [ call EXCEPT ![t] =
                          [ c EXCEPT
                              !.diagnostics = match_plugin_pass(Engine, plugin, plugin_pass, @),
                              !.log = Append(@, Event("plugin_pass", full_name(plugin))),
                              !.plugin = IF last THEN 0 ELSE @ + 1,
                              !.lua_ast = IF last THEN 0 ELSE @,
                              !.pc = IF last THEN "filter" ELSE "plugin_lock" ] ]
           /\ lua_asts' = IF last
                          THEN [ i \in (DOMAIN lua_asts) \ { c.lua_ast } |-> lua_asts[i] ]
                          ELSE [ lua_asts EXCEPT ![c.lua_ast].locked_by = 0 ]
    /\ UNCHANGED << newVars, returned >>

\* The filter step handing over the compiled-in severity of
\* invalid_lint_filter, whatever the config overrides.
FilterDiagnostics_DefaultSeverity(t) ==
    /\ call[t].pc = "filter"
    /\ LET c == call[t]
       IN  call' = [ call EXCEPT ![t] =
                       [ c EXCEPT
                           !.diagnostics =
                               filter_diagnostics(
                                   Trees[c.ast], @,
                                   RuleSeverity("invalid_lint_filter")),
                           !.log = Append(@, Event("filter", c.ast)),
                           !.pc = "return" ] ]
    /\ UNCHANGED << newVars, lua_asts, returned >>

\* diagnostics = lint_filtering::filter_diagnostics(..)
FilterDiagnostics(t) ==
    /\ call[t].pc = "filter"
    /\ LET c == call[t]
       IN  call' = [ call EXCEPT ![t] =
                       [ c EXCEPT
                           !.diagnostics =
                               filter_diagnostics(
                                   Trees[c.ast], @,
                                   get_lint_severity(Engine, "invalid_lint_filter")),
                           !.log = Append(@, Event("filter", c.ast)),
                           !.pc = "return" ] ]
    /\ UNCHANGED << newVars, lua_asts, returned >>

\* test_on returns `diagnostics` to the caller.
Return(t) ==
    /\ call[t].pc = "return"
    /\ call' = [ call EXCEPT ![t] = IdleCall ]
    /\ UNCHANGED << newVars, lua_asts, returned >>

Next ==
    \/ RuleField
    \/ MakeContext
    \/ LoadPlugin
    \/ ReturnOk
    \/ \E t \in Threads :
         \/ \E n \in TreeNames : TestOn(t, n)
         \/ CheckRules(t)
         \/ Unwind(t)
         \/ RunPlugins(t)
         \/ PluginLock(t)
         \/ PluginPassed(t)
         \/ FilterDiagnostics(t)
         \/ Return(t)

Spec == Init /\ [][Next]_vars

(***************************************************************************)
(* The same engine under a caller that keeps what test_on returned.  The   *)
(* config bundles are the ones with plugins and no overrides.              *)
(***************************************************************************)
InitKept ==
    /\ Init
    /\ given.config = << >>
    /\ given.rules = << >>
    /\ given.std = "lua51"

\* test_on returns `diagnostics`, and the caller keeps the list.
ReturnKept(t) ==
    /\ call[t].pc = "return"
    /\ returned' = returned \cup { << call[t].ast, call[t].diagnostics >> }
    /\ call' = [ call EXCEPT ![t] = IdleCall ]
    /\ UNCHANGED << newVars, lua_asts >>

NextKept ==
    \/ RuleField
    \/ MakeContext
    \/ LoadPlugin
    \/ ReturnOk
    \/ \E t \in Threads :
         \/ \E n \in TreeNames : TestOn(t, n)
         \/ CheckRules(t)
         \/ Unwind(t)
         \/ RunPlugins(t)
         \/ PluginLock(t)
         \/ PluginPassed(t)
         \/ FilterDiagnostics(t)
         \/ ReturnKept(t)

SpecKept == InitKept /\ [][NextKept]_vars

(***************************************************************************)
(* Properties of Checker::new.                                             *)
(***************************************************************************)
\* What the caller asked for, read off the config bundle it passed.
GivenEntryFails(name) ==
    /\ name \in DOMAIN given.config
    /\ given.config[name] \in { "wrong_type", "out_of_range" }

GivenFailingRules == { i \in 1..Len(ALL_RULES) : GivenEntryFails(ALL_RULES[i]) }

GivenPluginLoads(i) == given.plugins[i].source \in { "count_calls.lua", "broken.lua" }

RegistryIndex(name) == CHOOSE i \in 1..Len(ALL_RULES) : ALL_RULES[i] = name

\* C1: Checker::new never returns a partial engine.  A config entry that does
\* not deserialize, or a config the check's constructor rejects, makes it
\* return ConfigDeserializeError or RuleNewError with that check's name and
\* the cause, and no Checker; a Checker is returned only with every built-in
\* check constructed and every plugin loaded.
C1_NoPartialEngine ==
    /\ checker /= << >> <=> result.kind = "Ok"
    /\ newPc /= "done" => result.kind = "pending"
    /\ (newPc = "done" /\ GivenFailingRules /= { }) =>
          /\ result.kind = "Err"
          /\ checker = << >>
          /\ result.error.name \in RuleNames
          /\ GivenEntryFails(result.error.name)
          /\ given.config[result.error.name] = "wrong_type" =>
                /\ result.error.type = "ConfigDeserializeError"
                /\ result.error.problem = "invalid type"
          /\ given.config[result.error.name] = "out_of_range" =>
                /\ result.error.type = "RuleNewError"
                /\ result.error.problem = "rejected setting"
    /\ checker /= << >> =>
          /\ [ i \in 1..Len(checker[1].rules) |-> checker[1].rules[i].name ] = ALL_RULES
          /\ Len(checker[1].plugins) = Len(given.plugins)
          /\ \A i \in 1..Len(given.plugins) :
                /\ GivenPluginLoads(i)
                /\ checker[1].plugins[i] = Scripts[given.plugins[i].source]

C1_Witness ==
    /\ newPc = "done"
    /\ result.kind = "Err"
    /\ result.error.type = "RuleNewError"
    /\ result.error.name = "global_usage"
    /\ checker = << >>

\* C2: when several built-in checks would fail, the error names the first of
\* them in registry order, and Checker::new has touched no check after it:
\* no later entry was removed from the config, none deserialized, and no
\* later constructor was called.
C2_FirstFailureInRegistryOrder ==
    (newPc = "done" /\ GivenFailingRules /= { }) =>
        LET first == CHOOSE i \in GivenFailingRules :
                        \A j \in GivenFailingRules : i <= j
        IN  /\ result.kind = "Err"
            /\ result.error.name = ALL_RULES[first]
            /\ \A k \in 1..Len(newLog) :
                  newLog[k].op \in { "remove", "deserialize", "new" } =>
                      RegistryIndex(newLog[k].name) <= first
            /\ \A i \in 1..first :
                  \E k \in 1..Len(newLog) : newLog[k] = Event("remove", ALL_RULES[i])

C2_Witness ==
    /\ newPc = "done"
    /\ Cardinality(GivenFailingRules) > 1
    /\ result.error.name = "bad_string_escape"
    /\ \E k \in 1..Len(newLog) : newLog[k] = Event("new", "almost_swapped")

\* C3: a plugin that fails to load makes Checker::new fail with
\* InvalidPlugin and return no engine, so that no thread is ever in test_on;
\* the plugins are loaded in the order of the config's list and none after
\* the first that fails.
LoadLog == SelectSeq(newLog, LAMBDA e : e.op = "load")

C3_PluginLoadFailFast ==
    /\ Len(LoadLog) <= Len(given.plugins)
    /\ \A k \in 1..Len(LoadLog) :
          /\ LoadLog[k].name = given.plugins[k].source
          /\ k < Len(LoadLog) => GivenPluginLoads(k)
    /\ (newPc = "done" /\ GivenFailingRules = { }) =>
          \/ /\ \A i \in 1..Len(given.plugins) : GivenPluginLoads(i)
             /\ result.kind = "Ok"
             /\ Len(LoadLog) = Len(given.plugins)
          \/ /\ ~GivenPluginLoads(Len(LoadLog))
             /\ result = [ kind |-> "Err",
                           error |-> [ type |-> "InvalidPlugin", name |-> "",
                                       problem |-> "no such file" ] ]
             /\ checker = << >>
    /\ (result.kind = "Err" /\ result.error.type = "InvalidPlugin") =>
          \A t \in Threads : call[t].pc = "idle"

C3_Witness ==
    /\ newPc = "done"
    /\ result.error.type = "InvalidPlugin"
    /\ Len(given.plugins) = MaxPlugins
    /\ Len(LoadLog) = 1

(***************************************************************************)
(* Properties of Checker::test_on.                                         *)
(***************************************************************************)
InCall == { t \in Threads : call[t].pc /= "idle" }

\* The severity a RuleVariation of the config stands for.
VariationSeverity(variation) ==
    CASE variation = "Allow" -> "Allow"
      [] variation = "Deny"  -> "Error"
      [] variation = "Warn"  -> "Warning"

\* The number of diagnostics the lints report on a tree.
TreeLintCount(ast) ==
    Cardinality(UNION { { <<r, i>> : i \in 1..Len(ast.lints[r]) } : r \in DOMAIN ast.lints })

\* The number of diagnostics one invocation of a plugin adds on a tree.
PluginYield(plugin, ast) == IF plugin.behaviour = "raise" THEN 1 ELSE Len(ast.calls)

CodeOf(checker_diagnostic) == checker_diagnostic.diagnostic.code

WithCode(diagnostics, code) == SelectSeq(diagnostics, LAMBDA d : CodeOf(d) = code)

\* C4: every diagnostic of a built-in check carries the severity resolved
\* for the check's registry name: the config's override for that name
\* (Allow -> Allow, Deny -> Error, Warn -> Warning) if there is one, else the
\* check's compiled-in default.
C4_BuiltinSeverityResolved ==
    \A t \in InCall : \A i \in 1..Len(call[t].diagnostics) :
        LET d == call[t].diagnostics[i]
            name == CodeOf(d)
        IN  name \in RuleNames =>
                d.severity = IF name \in DOMAIN given.rules
                             THEN VariationSeverity(given.rules[name])
                             ELSE RuleSeverity(name)

C4_Witness ==
    \E t \in InCall :
        /\ given.rules = [ k \in { "global_usage" } |-> "Deny" ]
        /\ call[t].pc = "run_plugins"
        /\ Len(WithCode(call[t].diagnostics, "global_usage")) = 2
        /\ \A i \in 1..Len(call[t].diagnostics) :
              CodeOf(call[t].diagnostics[i]) = "global_usage" =>
                  call[t].diagnostics[i].severity = "Error"

\* C5: every diagnostic of a plugin invocation that succeeded carries the
\* severity resolved by the plugin's full name: the config's override for
\* the full name if there is one, else the severity the plugin declares; an
\* override under another name does not change it.
C5_PluginSeverityByFullName ==
    checker /= << >> =>
        \A t \in InCall : \A i \in 1..Len(call[t].diagnostics) :
            \A k \in 1..Len(checker[1].plugins) :
                LET d == call[t].diagnostics[i]
                    plugin == checker[1].plugins[k]
                    full == "plugin_" \o plugin.name
                IN  (CodeOf(d) = full /\ plugin.behaviour /= "raise") =>
                        d.severity = IF full \in DOMAIN given.rules
                                     THEN VariationSeverity(given.rules[full])
                                     ELSE plugin.severity

C5_Witness ==
    \E t \in InCall :
        /\ given.rules = [ k \in { "plugin_count_calls" } |-> "Deny" ]
        /\ call[t].pc = "filter"
        /\ \E i \in 1..Len(call[t].diagnostics) :
              /\ CodeOf(call[t].diagnostics[i]) = "plugin_count_calls"
              /\ call[t].diagnostics[i].severity = "Error"

\* C6: each invocation of a plugin that fails at run time adds exactly one
\* diagnostic: severity Error, the plugin's full name, the label (0, 0) and
\* the failure text in the message; the call goes on and returns its list,
\* the failure does not leave test_on as a fault.
C6_PluginFailureIsOneDiagnostic ==
    checker /= << >> =>
        \A t \in InCall :
            /\ call[t].pc = "panicked" =>
                  /\ Trees[call[t].ast].faults /= { }
                  /\ \A e \in 1..Len(call[t].log) : call[t].log[e].op = "pass"
            /\ \A k \in 1..Len(checker[1].plugins) :
                  LET plugin == checker[1].plugins[k]
                      full == "plugin_" \o plugin.name
                      failed == SelectSeq(call[t].log,
                                          LAMBDA e : e = Event("plugin_pass", full))
                      synthetic == WithCode(call[t].diagnostics, full)
                  IN  plugin.behaviour = "raise" =>
                          /\ Len(synthetic) = Len(failed)
                          /\ \A j \in 1..Len(synthetic) :
                                synthetic[j] =
                                  [ diagnostic |->
                                      [ code |-> full,
                                        message |-> "error running plugin: attempt to call a nil value",
                                        primary_label |-> <<0, 0>> ],
                                    severity |-> "Error" ]

C6_Witness ==
    \E t \in InCall :
        /\ call[t].pc = "return"
        /\ Len(WithCode(call[t].diagnostics, "plugin_broken")) = 1
        /\ Len(WithCode(call[t].diagnostics, "unused_variable")) = 1

\* C7: a plugin's run-time failure leaves the diagnostics accumulated so far
\* as they are, in place, and the plugins after it are still invoked and
\* still contribute.
C7_FailureStep ==
    \A t \in Threads :
        LET c == call[t]
            plugin == checker[1].plugins[c.plugin]
        IN  (c.pc = "plugin_pass" /\ call'[t] /= c /\ plugin.behaviour = "raise") =>
                /\ Len(call'[t].diagnostics) = Len(c.diagnostics) + 1
                /\ SubSeq(call'[t].diagnostics, 1, Len(c.diagnostics)) = c.diagnostics
                /\ IF c.plugin < Len(checker[1].plugins)
                   THEN call'[t].pc = "plugin_lock" /\ call'[t].plugin = c.plugin + 1
                   ELSE call'[t].pc = "filter"

C7_AllContribute ==
    checker /= << >> =>
        \A t \in InCall :
            call[t].pc \in { "plugin_lock", "plugin_pass", "filter" } =>
                LET c == call[t]
                    ast == Trees[c.ast]
                    builtin == TreeLintCount(ast)
                    Passed(k) == c.pc = "filter" \/ k < c.plugin
                IN  /\ Len(c.diagnostics) >= builtin
                    /\ \A i \in 1..Len(c.diagnostics) :
                          CodeOf(c.diagnostics[i]) \in RuleNames <=> i <= builtin
                    /\ \A k \in 1..Len(checker[1].plugins) :
                          LET plugin == checker[1].plugins[k]
                              full == "plugin_" \o plugin.name
                          IN  /\ Len(WithCode(c.diagnostics, full)) =
                                    IF Passed(k) THEN PluginYield(plugin, ast) ELSE 0
                              /\ Passed(k) <=>
                                    \E e \in 1..Len(c.log) :
                                        c.log[e] = Event("plugin_pass", full)

C7_FailureKeepsTheRest == [][C7_FailureStep]_vars /\ []C7_AllContribute

C7_Witness ==
    \E t \in InCall :
        /\ call[t].pc = "filter"
        /\ Len(checker[1].plugins) > 1
        /\ checker[1].plugins[1].name = "broken"
        /\ Len(call[t].diagnostics) = 7
        /\ CodeOf(call[t].diagnostics[5]) = "plugin_broken"
        /\ CodeOf(call[t].diagnostics[6]) = "plugin_count_calls"

\* C8: with no plugin configured run_plugins does nothing: no bridged tree
\* is built and the diagnostics of the checks are left as they are; a
\* bridged tree is built only by a call of an engine that has a plugin.
C8_NoPluginsNoBridge ==
    (checker /= << >> /\ checker[1].plugins = << >>) =>
        /\ lua_asts = << >>
        /\ \A t \in InCall :
              /\ call[t].lua_ast = 0
              /\ \A e \in 1..Len(call[t].log) : call[t].log[e].op \in { "pass", "filter" }
              /\ call[t].pc = "filter" =>
                    /\ Len(call[t].diagnostics) = TreeLintCount(Trees[call[t].ast])
                    /\ \A i \in 1..Len(call[t].diagnostics) :
                          CodeOf(call[t].diagnostics[i]) \in RuleNames

C8_Witness ==
    /\ checker /= << >>
    /\ given.plugins = << >>
    /\ \E t \in InCall :
          /\ call[t].pc = "filter"
          /\ Len(call[t].diagnostics) = 4

\* C9: a test_on call builds exactly one bridged tree, which all its plugin
\* invocations lock; at most one plugin runs against a bridged tree at a
\* time; no bridged tree is shared between calls, so a call never waits for
\* the lock because of another call.
C9_OneBridgePerCall ==
    checker /= << >> =>
        /\ \A t \in InCall :
              LET c == call[t]
                  built == SelectSeq(c.log, LAMBDA e : e.op = "lua_ast")
                  locks == SelectSeq(c.log, LAMBDA e : e.op = "lock")
              IN  /\ Len(built) =
                        IF /\ checker[1].plugins /= << >>
                           /\ c.pc \in { "plugin_lock", "plugin_pass", "filter", "return" }
                        THEN 1 ELSE 0
                  /\ \A j \in 1..Len(locks) : locks[j].name = built[1].name
                  /\ c.pc \in { "filter", "return" } => Len(locks) = Len(checker[1].plugins)
                  /\ c.pc \in { "plugin_lock", "plugin_pass" } <=> c.lua_ast /= 0
                  /\ c.lua_ast /= 0 =>
                        /\ c.lua_ast \in DOMAIN lua_asts
                        /\ built[1].name = ToString(c.lua_ast)
                        /\ lua_asts[c.lua_ast].ast = c.ast
                        /\ lua_asts[c.lua_ast].locked_by =
                              IF c.pc = "plugin_pass" THEN t ELSE 0
        /\ \A t, u \in InCall :
              (t /= u /\ call[t].lua_ast /= 0) => call[t].lua_ast /= call[u].lua_ast
        /\ \A id \in DOMAIN lua_asts :
              /\ \E t \in InCall : call[t].lua_ast = id
              /\ Cardinality({ t \in InCall : call[t].pc = "plugin_pass"
                                                /\ call[t].lua_ast = id }) <= 1

C9_Witness ==
    \E t, u \in InCall :
        /\ t /= u
        /\ call[t].pc = "plugin_pass"
        /\ call[u].pc = "plugin_pass"
        /\ call[t].ast /= call[u].ast
        /\ call[t].plugin = MaxPlugins

\* C10: the filter runs once per test_on call and after every built-in check
\* and every plugin: it is handed the whole list of their diagnostics, the
\* failure diagnostics of plugins included, and nothing runs after it.
C10_FilterRunsLastOnce ==
    checker /= << >> =>
        \A t \in InCall :
            LET c == call[t]
                ast == Trees[c.ast]
                n == Len(c.log)
                filtered == { e \in 1..n : c.log[e].op = "filter" }
                contributions ==
                    UNION { { <<k, i>> : i \in 1..PluginYield(checker[1].plugins[k], ast) } :
                            k \in 1..Len(checker[1].plugins) }
            IN  /\ filtered = IF c.pc = "return" THEN { n } ELSE { }
                /\ c.pc \in { "filter", "return" } =>
                      /\ \A i \in 1..Len(ALL_RULES) : c.log[i] = Event("pass", ALL_RULES[i])
                      /\ \A k \in 1..Len(checker[1].plugins) :
                            \E e \in 1..n :
                                c.log[e] = Event("plugin_pass",
                                                 "plugin_" \o checker[1].plugins[k].name)
                /\ c.pc = "filter" =>
                      Len(c.diagnostics) = TreeLintCount(ast) + Cardinality(contributions)

C10_Witness ==
    \E t \in InCall :
        /\ call[t].pc = "return"
        /\ call[t].ast = "typo.lua"
        /\ Len(checker[1].plugins) = MaxPlugins
        /\ Len(WithCode(call[t].diagnostics, "invalid_lint_filter")) = 1
        /\ Len(WithCode(call[t].diagnostics, "plugin_broken")) = 1

(***************************************************************************)
(* Properties of the filter step.                                          *)
(***************************************************************************)
\* A directive covers a diagnostic when the position of the diagnostic's
\* primary label lies in the directive's scope and the directive's target is
\* the wildcard or the name of the unit that reported the diagnostic.
DirectiveCovers(filter, checker_diagnostic) ==
    /\ filter.well_formed
    /\ filter.target \in { "all", CodeOf(checker_diagnostic) }
    /\ filter.from <= checker_diagnostic.diagnostic.primary_label[1]
    /\ checker_diagnostic.diagnostic.primary_label[1] <= filter.to

Covered(ast, checker_diagnostic) ==
    \E i \in 1..Len(ast.filters) : DirectiveCovers(ast.filters[i], checker_diagnostic)

\* C11: a diagnostic of a built-in check or of a plugin whose primary label
\* lies in the scope of a directive that targets its reporting unit's name or
\* the wildcard is absent from what test_on returns, and a diagnostic no
\* directive covers is kept: the filter step turns the list it is handed
\* into the uncovered diagnostics, in order, followed only by diagnostics of
\* invalid_lint_filter.
C11_FilterStep ==
    \A t \in Threads :
        LET c == call[t]
            ast == Trees[c.ast]
            result_list == call'[t].diagnostics
        IN  (c.pc = "filter" /\ call'[t].pc = "return") =>
                /\ \A i \in 1..Len(c.diagnostics) :
                      Covered(ast, c.diagnostics[i]) =>
                          \A j \in 1..Len(result_list) : result_list[j] /= c.diagnostics[i]
                /\ SelectSeq(result_list, LAMBDA d : CodeOf(d) /= "invalid_lint_filter")
                     = SelectSeq(c.diagnostics, LAMBDA d : ~Covered(ast, d))

Malformed(filter) ==
    \/ ~filter.well_formed
    \/ filter.target \notin RuleNames \cup { "all" }

\* C12: each malformed directive of the tree (unknown target name or
\* malformed syntax) yields exactly one diagnostic of invalid_lint_filter,
\* at the directive, tagged with the severity resolved for that name (the
\* config's override if there is one, else the compiled-in default); only
\* the filter reports under that name, and a malformed directive is no
\* fault: the call comes to return its list.
C12_MalformedDirectiveIsOneDiagnostic ==
    checker /= << >> =>
        \A t \in InCall :
            LET c == call[t]
                ast == Trees[c.ast]
                reported == WithCode(c.diagnostics, "invalid_lint_filter")
                malformed == { i \in 1..Len(ast.filters) : Malformed(ast.filters[i]) }
                resolved == IF "invalid_lint_filter" \in DOMAIN given.rules
                            THEN VariationSeverity(given.rules["invalid_lint_filter"])
                            ELSE RuleSeverity("invalid_lint_filter")
            IN  /\ c.pc = "panicked" => ast.faults /= { }
                /\ c.pc /= "return" => reported = << >>
                /\ c.pc = "return" =>
                      /\ Len(reported) = Cardinality(malformed)
                      /\ \A i \in malformed :
                            Cardinality({ j \in 1..Len(reported) :
                                            reported[j].diagnostic.primary_label
                                              = ast.filters[i].at }) = 1
                      /\ \A j \in 1..Len(reported) : reported[j].severity = resolved

C12_Witness ==
    \E t \in InCall :
        /\ call[t].pc = "return"
        /\ call[t].ast = "globals.lua"
        /\ given.rules = [ k \in { "invalid_lint_filter" } |-> "Warn" ]
        /\ Len(WithCode(call[t].diagnostics, "invalid_lint_filter")) = 2
        /\ \A i \in 1..Len(call[t].diagnostics) :
              CodeOf(call[t].diagnostics[i]) = "invalid_lint_filter" =>
                  call[t].diagnostics[i].severity = "Warning"

(***************************************************************************)
(* Properties of repeated and concurrent test_on calls.                    *)
(***************************************************************************)
\* The lists test_on has returned for a tree so far.
ReturnedFor(n) == { r[2] : r \in { p \in returned : p[1] = n } }

\* C13: test_on is idempotent: on one constructed engine every run on the
\* same tree returns the identical list, however many runs on this tree or
\* on other trees there were before: all the lists returned for a tree so
\* far are one list, and a call about to return holds that list.
C13_RepeatedRunsReturnTheSame ==
    /\ \A n \in TreeNames : Cardinality(ReturnedFor(n)) <= 1
    /\ \A t \in Threads :
          call[t].pc = "return" =>
              ReturnedFor(call[t].ast) \subseteq { call[t].diagnostics }

C13_Witness ==
    \E t \in Threads :
        /\ call[t].pc = "return"
        /\ call[t].ast = "globals.lua"
        /\ Len(checker[1].plugins) = MaxPlugins
        /\ ReturnedFor("globals.lua") = { call[t].diagnostics }
        /\ ReturnedFor("typo.lua") /= { }
        /\ Len(call[t].diagnostics) > 4

\* The labels a tree gives the diagnostics of a unit: the labels the lint of
\* that name reports on it, the call sites a plugin reports on it, the
\* position of a plugin's failure, the places of its directives.
LabelsOf(ast, code) ==
    IF code = "invalid_lint_filter"
    THEN { ast.filters[i].at : i \in 1..Len(ast.filters) }
    ELSE IF code \in RuleNames
    THEN IF code \in DOMAIN ast.lints
         THEN { ast.lints[code][i] : i \in 1..Len(ast.lints[code]) }
         ELSE { }
    ELSE { ast.calls[i] : i \in 1..Len(ast.calls) } \cup { <<0, 0>> }

\* C14: concurrent test_on calls on one engine are safe.  Under every
\* interleaving a call returns the list it returns when it runs by itself;
\* the facts and the accumulator of a call are its own (the facts of its
\* tree, diagnostics of its tree only) and its bridged tree is of its tree;
\* and the engine stays what Checker::new built from the config: its config,
\* its Context, its check instances and its plugin list.
C14_ConcurrentCallsAreIsolated ==
    checker /= << >> =>
        /\ checker[1].config.rules = given.rules
        /\ checker[1].config.plugins = given.plugins
        /\ checker[1].config.std = given.std
        /\ checker[1].config.config
             = [ k \in (DOMAIN given.config) \ RuleNames |-> given.config[k] ]
        /\ checker[1].context.standard_library = StandardLibraryFor(given.std)
        /\ checker[1].plugins
             = [ i \in 1..Len(given.plugins) |-> Scripts[given.plugins[i].source] ]
        /\ checker[1].rules
             = [ i \in 1..Len(ALL_RULES) |->
                   [ name |-> ALL_RULES[i],
                     config |-> IF ALL_RULES[i] \in DOMAIN given.config
                                THEN given.config[ALL_RULES[i]]
                                ELSE DefaultRuleConfig ] ]
        /\ \A t \in InCall :
              LET c == call[t]
                  ast == Trees[c.ast]
              IN  /\ c.ast_context = AstContextFromAst(ast)
                  /\ \A i \in 1..Len(c.diagnostics) :
                        c.diagnostics[i].diagnostic.primary_label
                          \in LabelsOf(ast, CodeOf(c.diagnostics[i]))
                  /\ c.lua_ast /= 0 => lua_asts[c.lua_ast].ast = c.ast
                  /\ c.pc \in { "return", "panicked" } =>
                        \A alone \in { test_on(checker[1], ast) } :
                            /\ alone.ok <=> c.pc = "return"
                            /\ c.diagnostics = alone.diagnostics

C14_Witness ==
    \E t, u \in InCall :
        /\ t /= u
        /\ Len(checker[1].plugins) = MaxPlugins
        /\ call[t].pc = "return"
        /\ call[t].ast = "globals.lua"
        /\ call[u].pc = "plugin_pass"
        /\ call[u].ast = "typo.lua"
        /\ Len(call[u].diagnostics) > 0
        /\ Len(call[t].diagnostics) > 4

(***************************************************************************)
(* Properties of the constructed engine.                                   *)
(***************************************************************************)
\* The checks for which Checker::new made the call `op`, in the order of the
\* calls.
NewLogNames(op) ==
    LET calls == SelectSeq(newLog, LAMBDA e : e.op = op)
    IN  [ i \in 1..Len(calls) |-> calls[i].name ]

\* C15: after a successful Checker::new the engine holds exactly one
\* instance of each registered check, and the config entry of each check was
\* consumed exactly once: removed once, deserialized once if there was one,
\* the check constructed once from it, and no key of the stored settings map
\* is the name of a registered check.
C15_OneInstanceEntryConsumed ==
    checker /= << >> =>
        /\ Len(checker[1].rules) = Len(ALL_RULES)
        /\ \A i \in 1..Len(ALL_RULES) :
              checker[1].rules[i] =
                  [ name |-> ALL_RULES[i],
                    config |-> IF ALL_RULES[i] \in DOMAIN given.config
                               THEN given.config[ALL_RULES[i]]
                               ELSE DefaultRuleConfig ]
        /\ (DOMAIN checker[1].config.config) \cap RuleNames = { }
        /\ NewLogNames("remove") = ALL_RULES
        /\ NewLogNames("new") = ALL_RULES
        /\ NewLogNames("deserialize")
             = SelectSeq(ALL_RULES, LAMBDA name : name \in DOMAIN given.config)

C15_Witness ==
    /\ checker /= << >>
    /\ "global_usage" \in DOMAIN given.config
    /\ "not_a_rule" \in DOMAIN given.config
    /\ "global_usage" \notin DOMAIN checker[1].config.config
    /\ checker[1].rules[9] = [ name |-> "global_usage", config |-> "custom" ]

(***************************************************************************)
(* Properties of the severity overrides.                                   *)
(***************************************************************************)
\* The override a map has for a name, if any.
OverrideOf(overrides, name) ==
    IF name \in DOMAIN overrides THEN << overrides[name] >> ELSE << >>

\* The constructed engine with another override map and nothing else changed.
EngineWithOverrides(overrides) == [ checker[1] EXCEPT !.config.rules = overrides ]

\* C16: the override map changes severity tags only.  Whatever a call
\* returns, test_on of an engine that differs in the override map alone
\* returns for the same tree a list of the same length with the same
\* diagnostics (unit, message, label) in the same order, and a severity
\* differs only where the two maps differ in the override of the
\* diagnostic's unit.
C16_OverridesChangeSeverityOnly ==
    checker /= << >> =>
        \A t \in InCall :
            call[t].pc = "return" =>
                \A overrides \in Overrides :
                \A other \in { test_on(EngineWithOverrides(overrides),
                                        Trees[call[t].ast]).diagnostics } :
                    LET mine == call[t].diagnostics
                    IN  /\ Len(mine) = Len(other)
                        /\ \A i \in 1..Len(mine) :
                              /\ i <= Len(other)
                              /\ mine[i].diagnostic = other[i].diagnostic
                              /\ mine[i].severity /= other[i].severity =>
                                    OverrideOf(given.rules, CodeOf(mine[i]))
                                      /= OverrideOf(overrides, CodeOf(mine[i]))

C16_Witness ==
    \E t \in InCall :
        /\ call[t].pc = "return"
        /\ call[t].ast = "globals.lua"
        /\ given.rules = [ k \in { "global_usage" } |-> "Allow" ]
        /\ LET mine == call[t].diagnostics
               other == test_on(EngineWithOverrides(<< >>), Trees[call[t].ast]).diagnostics
           IN  /\ Len(mine) = Len(other)
               /\ Len(mine) > 1
               /\ CodeOf(mine[1]) = "global_usage"
               /\ mine[1].severity = "Allow"
               /\ other[1].severity = "Warning"
               /\ mine[2] = other[2]

(***************************************************************************)
(* Properties of the order of the diagnostics.                             *)
(***************************************************************************)
\* The place of a reporting unit in the order of test_on: the lints by their
\* place in the registry, then the plugins by their place in the plugin list.
UnitIndex(engine, code) ==
    IF code \in RuleNames
    THEN RegistryIndex(code)
    ELSE Len(ALL_RULES)
         + (CHOOSE k \in 1..Len(engine.plugins) : full_name(engine.plugins[k]) = code)

LabelsIn(diagnostics) ==
    [ i \in 1..Len(diagnostics) |-> diagnostics[i].diagnostic.primary_label ]

\* C17: the list handed to the filter is in the order of the producing
\* units: the diagnostics of the lints in registry order, those of one lint
\* together and in the order the lint reported them, then the diagnostics of
\* the plugins in plugin-list order, each plugin's in the order it reported
\* them; no diagnostic of a lint comes after one of a plugin, and the list
\* is not sorted by position (on globals.lua the positions do not ascend).
C17_OrderedByProducingUnit ==
    checker /= << >> =>
        \A t \in InCall :
            call[t].pc = "filter" =>
                LET d == call[t].diagnostics
                    ast == Trees[call[t].ast]
                IN  /\ \A i, j \in 1..Len(d) :
                          i < j => UnitIndex(checker[1], CodeOf(d[i]))
                                     <= UnitIndex(checker[1], CodeOf(d[j]))
                    /\ \A i, j \in 1..Len(d) :
                          (i < j /\ CodeOf(d[j]) \in RuleNames) => CodeOf(d[i]) \in RuleNames
                    /\ \A name \in DOMAIN ast.lints :
                          LabelsIn(WithCode(d, name)) = ast.lints[name]
                    /\ \A k \in 1..Len(checker[1].plugins) :
                          checker[1].plugins[k].behaviour = "lint" =>
                              LabelsIn(WithCode(d, full_name(checker[1].plugins[k])))
                                = ast.calls
                    /\ call[t].ast = "globals.lua" =>
                          \E i, j \in 1..Len(d) :
                              /\ i < j
                              /\ d[i].diagnostic.primary_label[1]
                                   > d[j].diagnostic.primary_label[1]

C17_Witness ==
    \E t \in InCall :
        /\ call[t].pc = "filter"
        /\ call[t].ast = "globals.lua"
        /\ Len(checker[1].plugins) > 1
        /\ checker[1].plugins[1].name = "count_calls"
        /\ [ i \in 1..Len(call[t].diagnostics) |-> CodeOf(call[t].diagnostics[i]) ]
             = << "global_usage", "global_usage", "undefined_variable", "unused_variable",
                  "plugin_count_calls", "plugin_count_calls", "plugin_broken" >>
        /\ LabelsIn(call[t].diagnostics)
             = << <<10, 16>>, <<40, 46>>, <<25, 28>>, <<5, 9>>, <<30, 33>>, <<12, 15>>, <<0, 0>> >>

(***************************************************************************)
(* Properties of faults and failures.                                      *)
(***************************************************************************)
\* The registry index of the first lint whose pass faults on the tree.
FirstFault(ast) ==
    CHOOSE i \in 1..Len(ALL_RULES) :
        /\ ALL_RULES[i] \in ast.faults
        /\ \A j \in 1..(i - 1) : ALL_RULES[j] \notin ast.faults

\* C18: the fault of a lint's pass is not isolated.  A call on a tree on
\* which a lint faults never gets past the lints: it ends at the faulting
\* pass with no list to return, the diagnostics of the lints that ran before
\* included; the passes that ran are the lints up to the faulting one, no
\* plugin and no filter runs, no bridged tree is built, and no diagnostic
\* stands in for the fault.
C18_LintFaultAbortsTheCall ==
    checker /= << >> =>
        \A t \in InCall :
            LET c == call[t]
                ast == Trees[c.ast]
            IN  ast.faults /= { } =>
                    /\ c.pc \in { "checks", "panicked" }
                    /\ c.diagnostics = << >>
                    /\ c.lua_ast = 0
                    /\ c.log = IF c.pc = "checks"
                               THEN << >>
                               ELSE [ i \in 1..FirstFault(ast) |-> Event("pass", ALL_RULES[i]) ]

C18_Witness ==
    \E t \in InCall :
        /\ call[t].pc = "panicked"
        /\ call[t].ast = "crash.lua"
        /\ Len(checker[1].plugins) = MaxPlugins
        /\ "almost_swapped" \in DOMAIN Trees[call[t].ast].lints
        /\ Len(call[t].log) = 6
        /\ call[t].log[1] = Event("pass", "almost_swapped")
        /\ call[t].log[6] = Event("pass", "divide_by_zero")
        /\ call[t].diagnostics = << >>

\* The diagnostics of a list that report the failure of a plugin.
PluginFailures(diagnostics) ==
    SelectSeq(diagnostics,
              LAMBDA d : /\ CodeOf(d) \notin RuleNames
                         /\ d.diagnostic.message
                              = "error running plugin: attempt to call a nil value")

\* C19: the diagnostic that reports a plugin's failure has severity Error
\* whatever the config says: neither an override for the plugin's full name
\* (Allow included) nor the severity the plugin declares reaches it; they
\* decide the severity of the plugin's ordinary diagnostics only.
C19_FailureDiagnosticIsError ==
    checker /= << >> =>
        \A t \in InCall :
            LET failures == PluginFailures(call[t].diagnostics)
            IN  /\ \A i \in 1..Len(failures) : failures[i].severity = "Error"
                /\ \A k \in 1..Len(checker[1].plugins) :
                      LET plugin == checker[1].plugins[k]
                          of_plugin == WithCode(call[t].diagnostics, full_name(plugin))
                      IN  \A i \in 1..Len(of_plugin) :
                              of_plugin[i].severity =
                                  IF plugin.behaviour = "raise"
                                  THEN "Error"
                                  ELSE IF full_name(plugin) \in DOMAIN given.rules
                                  THEN VariationSeverity(given.rules[full_name(plugin)])
                                  ELSE plugin.severity

C19_Witness ==
    \E t \in InCall :
        /\ given.rules = [ k \in { "plugin_broken" } |-> "Allow" ]
        /\ \E k \in 1..Len(checker[1].plugins) :
              /\ checker[1].plugins[k].name = "broken"
              /\ checker[1].plugins[k].severity = "Allow"
        /\ call[t].pc = "return"
        /\ Len(PluginFailures(call[t].diagnostics)) = 1
        /\ PluginFailures(call[t].diagnostics)[1].severity = "Error"
        /\ CodeOf(PluginFailures(call[t].diagnostics)[1]) = "plugin_broken"

(***************************************************************************)
(* Properties of config that names nothing.                                *)
(***************************************************************************)
\* The keys of the given settings map that are no registered check's name.
UnknownSettings == (DOMAIN given.config) \ RuleNames

\* The override map of the engine without the overrides under names that are
\* neither a registered check's nor the full name of a plugin of the engine.
KnownOverrides ==
    LET known == RuleNames
                 \cup { full_name(checker[1].plugins[k]) : k \in 1..Len(checker[1].plugins) }
    IN  [ name \in (DOMAIN given.rules) \cap known |-> given.rules[name] ]

\* C20: Checker::new does not reject config it does not recognise.  A
\* settings entry under a key that is no registered check's name is never
\* removed or deserialized and no check is constructed from it, it is not
\* what an error is about, construction succeeds whenever the entries of the
\* registered checks are good and the plugins load, and the entry stays in
\* the engine's stored config as it was given.  An override under a name
\* that is neither a check's nor a plugin's does not make construction fail
\* either, is stored, and changes no severity: every call returns what it
\* returns without such overrides.
C20_UnrecognisedConfigIsKept ==
    /\ \A e \in 1..Len(newLog) :
          newLog[e].op \in { "remove", "deserialize", "new" } =>
              newLog[e].name \in RuleNames
    /\ result.kind = "Err" => result.error.name \notin UnknownSettings \cup DOMAIN given.rules
    /\ ( /\ newPc = "done"
         /\ GivenFailingRules = { }
         /\ \A i \in 1..Len(given.plugins) : GivenPluginLoads(i) ) => result.kind = "Ok"
    /\ checker /= << >> =>
          /\ \A key \in UnknownSettings :
                /\ key \in DOMAIN checker[1].config.config
                /\ checker[1].config.config[key] = given.config[key]
          /\ checker[1].config.rules = given.rules
          /\ \A t \in InCall :
                call[t].pc = "return" =>
                    call[t].diagnostics
                      = test_on(EngineWithOverrides(KnownOverrides),
                                Trees[call[t].ast]).diagnostics

C20_Witness ==
    /\ checker /= << >>
    /\ given.config = [ k \in { "not_a_rule" } |-> "wrong_type" ]
    /\ checker[1].config.config = given.config
    /\ given.rules = [ k \in { "count_calls" } |-> "Deny" ]
    /\ KnownOverrides = << >>
    /\ \E t \in InCall :
          /\ call[t].pc = "return"
          /\ call[t].ast = "typo.lua"
          /\ \E i \in 1..Len(call[t].diagnostics) :
                /\ CodeOf(call[t].diagnostics[i]) = "plugin_count_calls"
                /\ call[t].diagnostics[i].severity = "Warning"

====
